---- MODULE Spec2Model ----
(***************************************************************************)
(* Model of the MP4 -> MP3 transcoding script src/parser.py (Spec,          *)
(* FairSpec, and HostSpec for runs side by side) and of the upload handler *)
(* upload_mp4 of src/api.py (UploadSpec).                                  *)
(*                                                                         *)
(* The script is a straight-line module-level program: it opens the two    *)
(* containers, selects the audio stream, configures the output stream and  *)
(* the resampler, runs the nested demux / decode / resample / encode / mux *)
(* loops, flushes the encoder, closes both containers and prints.  Each    *)
(* statement of the script is one action; pc is the position in the        *)
(* script.  The PyAV objects are the environment: every call into them     *)
(* either raises or returns, and what it returns is chosen                 *)
(* nondeterministically within the bounds below.                           *)
(*                                                                         *)
(* Frames and packets are identified by the order in which the stage that  *)
(* produced them returned them (1, 2, 3, ...), so that the order in which  *)
(* the next stage receives them can be compared with it.  Audio is counted *)
(* in units of one frame: a decoded frame carries one unit, the resampler  *)
(* and the encoder hand on whole units and keep the rest buffered.         *)
(***************************************************************************)
EXTENDS Integers, Sequences, FiniteSets

\* Bounds of the model.
MaxPackets == 2     \* packets the demuxer yields
MaxFrames == 2      \* frames one decode call returns
MaxOut == 2         \* frames one resample call / packets one encode call returns
MaxDecoded == 3     \* frames the decoder returns in the whole run

\* The end-of-stream marker handed to encode (Python's None).
EOS == 0

\* Value of a script variable that has not been assigned yet.
Unset == [unset |-> TRUE]

\* Rate used when the source stream reports none (line 16) and the bit rate
\* of the output stream (line 17).
DefaultRate == 44100
BitRate == 192000

\* line 3 and line 4: the paths are fixed in the script, the same for every run.
InPath == "testvid1.mp4"
OutPath == "testaudio.mp3"

\* Runs a host process starts side by side, and the packets one of them muxes.
NRuns == 2
MaxRunPackets == 2
Runs == 1..NRuns

\* What an audio stream of the source may report: a channel layout name, or
\* "none" when it has no layout; a sample rate, or 0 when it has none.
SrcLayouts == {"none", "mono", "stereo"}
SrcRates == {0, 48000}

VARIABLES
    pc,          \* position in the script
    inC,         \* in_container:  "unopened" | "open" | "closed"
    outC,        \* out_container: "unopened" | "open" | "closed"
    hasAudio,    \* whether in_container.streams has an audio stream
    packets,     \* what in_container.demux(in_audio) yields: packets[i] is TRUE iff packet i has a dts
    pulled,      \* number of packets pulled from the demuxer; the loop variable packet is packets[pulled]
    decodeLog,   \* indices of the packets on which decode() was called, in call order
    frameQ,      \* frames of the current packet.decode() not yet iterated
    nDecoded,    \* number of frames the decoder has returned so far
    frame,       \* loop variable frame (a decoded frame id), 0 when unset
    rsIn,        \* decoded frame ids passed to resampler.resample, in call order
    nResampled,  \* number of frames the resampler has returned so far
    frames,      \* the list frames of line 38 not yet iterated (frame ids, or EOS for None)
    fr,          \* loop variable fr
    encIn,       \* arguments of the out_audio.encode calls, in call order (frame id or EOS)
    pktQ,        \* packets of the current encode() result not yet iterated
    nEncoded,    \* number of packets the encoder has returned so far
    flushFrom,   \* nEncoded when the flush call of line 45 was issued, -1 before
    muxed,       \* packet ids passed to out_container.mux successfully, in call order
    failed,      \* the stage whose call raised, "none" while nothing raised
    reported,    \* whether line 51 printed "Saved MP3 to: ..."
    inAudio,     \* in_audio: the selected stream [layout, rate], Unset before line 13
    outAudio,    \* out_audio: the output stream [rate, bit_rate, layout], Unset before line 16
    resampler,   \* resampler: its configuration [format, layout, rate], Unset before line 23
    nAddStream,  \* number of out_container.add_stream calls
    nResampler,  \* number of AudioResampler(...) constructions
    \* Several runs of the script started side by side by a host process
    hpc,         \* hpc[r]: position of run r, "off" when no such run is modelled
    toMux,       \* toMux[r]: number of packets the pipeline of run r hands to mux
    hMuxed,      \* hMuxed[r]: number of packets run r has muxed so far
    fs,          \* file system: fs[path] is the sequence of <<run, packet>> written to path
    \* One request to POST /upload (src/api.py, upload_mp4)
    upc,          \* position in the handler, "off" when no request is modelled
    fname,        \* file.filename as a sequence of characters, <<>> when missing
    initUploadUrl,\* INIT_UPLOAD_URL, "" when the env var is not set
    validate,     \* VALIDATE_WITH_PYAV
    chunksLeft,   \* 1MB chunks of the upload not yet read
    tmpExists,    \* whether the temp file has been created
    bytesRead,    \* chunks read from the upload and written to the temp file
    fileClosed,   \* whether file.close() was awaited
    pendingExc,   \* an exception is propagating through the finally block
    nInit,        \* number of POSTs to INIT_UPLOAD_URL
    initStatus,   \* init_resp.status_code, 0 before the response
    initData,     \* init_resp.json(), Unset before it is read
    uploadUrl,    \* upload_url, "none" before line 108
    nPut,         \* number of PUTs issued
    putUrl,       \* the URL the PUT was sent to, "none" before it
    putStatus,    \* put_resp.status_code, 0 before the response
    response,     \* status of the HTTP response of the handler, 0 while it runs
    detail        \* detail of the HTTPException or status field of the result

vars == <<pc, inC, outC, hasAudio, packets, pulled, decodeLog, frameQ, nDecoded,
          frame, rsIn, nResampled, frames, fr, encIn, pktQ, nEncoded, flushFrom,
          muxed, failed, reported, inAudio, outAudio, resampler, nAddStream, nResampler,
          hpc, toMux, hMuxed, fs,
          upc, fname, initUploadUrl, validate, chunksLeft, tmpExists, bytesRead, fileClosed,
          pendingExc, nInit, initStatus, initData, uploadUrl, nPut, putUrl, putStatus,
          response, detail>>

setupVars == <<hasAudio, packets>>
readVars == <<pulled, decodeLog, frameQ, nDecoded, frame, rsIn, nResampled, frames, fr>>
encVars == <<encIn, pktQ, nEncoded, flushFrom, muxed>>
contVars == <<inC, outC>>
cfgVars == <<inAudio, outAudio, resampler, nAddStream, nResampler>>
scriptVars == <<pc, contVars, setupVars, readVars, encVars, failed, reported, cfgVars>>
hostVars == <<hpc, toMux, hMuxed, fs>>
\* State outside the single run of the script; the script's steps leave it alone.
upReqVars == <<fname, initUploadUrl, validate>>
upFileVars == <<chunksLeft, tmpExists, bytesRead, fileClosed, pendingExc>>
upHttpVars == <<nInit, initStatus, initData, uploadUrl, nPut, putUrl, putStatus>>
upVars == <<upc, upReqVars, upFileVars, upHttpVars, response, detail>>
restVars == <<hostVars, upVars>>

----------------------------------------------------------------------------
\* Helpers

Min(a, b) == IF a < b THEN a ELSE b

\* <<lo, lo+1, ..., hi>> (empty when hi < lo)
Range(lo, hi) == [i \in 1..(hi - lo + 1) |-> lo + i - 1]

IsReal(x) == x # EOS

BoolSeqs(n) == UNION {[1..k -> BOOLEAN] : k \in 0..n}

\* Samples (in frame units) held inside the resampler: received minus returned.
ResamplerBuffered == Len(rsIn) - nResampled

\* Samples (in frame units) held inside the encoder: received minus returned.
EncoderBuffered == Len(SelectSeq(encIn, IsReal)) - nEncoded

----------------------------------------------------------------------------
\* No concurrent runs are modelled.
HostOff ==
    /\ hpc = [r \in Runs |-> "off"]
    /\ toMux = [r \in Runs |-> 0]
    /\ hMuxed = [r \in Runs |-> 0]
    /\ fs = [p \in {OutPath} |-> <<>>]

\* No upload request is modelled.
UploadOff ==
    /\ upc = "off"
    /\ fname = <<>> /\ initUploadUrl = "" /\ validate = FALSE
    /\ chunksLeft = 0 /\ tmpExists = FALSE /\ bytesRead = 0 /\ fileClosed = FALSE
    /\ pendingExc = FALSE
    /\ nInit = 0 /\ initStatus = 0 /\ initData = Unset /\ uploadUrl = "none"
    /\ nPut = 0 /\ putUrl = "none" /\ putStatus = 0
    /\ response = 0 /\ detail = ""

Init ==
    /\ HostOff
    /\ UploadOff
    /\ pc = "open_in"
    /\ inC = "unopened"
    /\ outC = "unopened"
    /\ hasAudio \in BOOLEAN
    /\ packets \in BoolSeqs(MaxPackets)
    /\ pulled = 0
    /\ decodeLog = <<>>
    /\ frameQ = <<>>
    /\ nDecoded = 0
    /\ frame = 0
    /\ rsIn = <<>>
    /\ nResampled = 0
    /\ frames = <<>>
    /\ fr = 0
    /\ encIn = <<>>
    /\ pktQ = <<>>
    /\ nEncoded = 0
    /\ flushFrom = -1
    /\ muxed = <<>>
    /\ failed = "none"
    /\ reported = FALSE
    /\ inAudio = Unset
    /\ outAudio = Unset
    /\ resampler = Unset
    /\ nAddStream = 0
    /\ nResampler = 0

\* Variant of Raise: the exception is caught and dropped, and the script goes
\* on to close the containers and print.
Raise_Swallowed(stage) ==
    /\ pc' = "close_in"
    /\ failed' = stage

\* A call raised: nothing in the script catches it, so the exception leaves
\* the module and the script ends at once; no later statement runs.
Raise(stage) ==
    /\ pc' = "aborted"
    /\ failed' = stage

\* line 7: in_container = av.open(in_path)
OpenIn ==
    /\ pc = "open_in"
    /\ \/ /\ inC' = "open"
          /\ pc' = "open_out"
          /\ UNCHANGED failed
       \/ /\ Raise("open")
          /\ UNCHANGED inC
    /\ UNCHANGED <<outC, setupVars, restVars, cfgVars, readVars, encVars, reported>>

\* line 10: out_container = av.open(out_path, mode="w", format="mp3")
OpenOut ==
    /\ pc = "open_out"
    /\ \/ /\ outC' = "open"
          /\ pc' = "select"
          /\ UNCHANGED failed
       \/ /\ Raise("open")
          /\ UNCHANGED outC
    /\ UNCHANGED <<inC, setupVars, restVars, cfgVars, readVars, encVars, reported>>

\* line 13: in_audio = next(s for s in in_container.streams if s.type == "audio")
\* next() raises StopIteration when the container has no audio stream.
SelectAudio ==
    /\ pc = "select"
    /\ IF hasAudio
         THEN /\ \E l \in SrcLayouts, r \in SrcRates : inAudio' = [layout |-> l, rate |-> r]
              /\ pc' = "add_stream"
              /\ UNCHANGED failed
         ELSE /\ Raise("select")
              /\ UNCHANGED inAudio
    /\ UNCHANGED <<contVars, setupVars, restVars, outAudio, resampler, nAddStream, nResampler,
                   readVars, encVars, reported>>

\* in_audio.rate or 44100
RateOrDefault(rate) == IF rate # 0 THEN rate ELSE DefaultRate

\* Variant of LayoutOrStereo: the source layout is ignored.
LayoutOrStereo_Always(layout) == "stereo"

\* in_audio.layout.name if in_audio.layout else "stereo"
LayoutOrStereo(layout) == IF layout # "none" THEN layout ELSE "stereo"

\* line 16: out_audio = out_container.add_stream("mp3", rate=in_audio.rate or 44100)
\* The new stream has no bit rate and no layout of its own yet.
AddStream ==
    /\ pc = "add_stream"
    /\ outAudio' = [rate |-> RateOrDefault(inAudio.rate), bit_rate |-> 0, layout |-> "none"]
    /\ nAddStream' = nAddStream + 1
    /\ pc' = "set_bit_rate"
    /\ UNCHANGED <<contVars, setupVars, restVars, inAudio, resampler, nResampler, readVars, encVars,
                   failed, reported>>

\* line 17: out_audio.bit_rate = 192_000
SetBitRate ==
    /\ pc = "set_bit_rate"
    /\ outAudio' = [outAudio EXCEPT !.bit_rate = BitRate]
    /\ pc' = "set_layout"
    /\ UNCHANGED <<contVars, setupVars, restVars, inAudio, resampler, nAddStream, nResampler, readVars,
                   encVars, failed, reported>>

\* line 20: out_audio.layout = in_audio.layout.name if in_audio.layout else "stereo"
SetLayout ==
    /\ pc = "set_layout"
    /\ outAudio' = [outAudio EXCEPT !.layout = LayoutOrStereo(inAudio.layout)]
    /\ pc' = "resampler"
    /\ UNCHANGED <<contVars, setupVars, restVars, inAudio, resampler, nAddStream, nResampler, readVars,
                   encVars, failed, reported>>

\* lines 23-27: resampler = AudioResampler(format="s16", layout=out_audio.layout,
\*                                          rate=out_audio.rate)
MakeResampler ==
    /\ pc = "resampler"
    /\ resampler' = [format |-> "s16", layout |-> outAudio.layout, rate |-> outAudio.rate]
    /\ nResampler' = nResampler + 1
    /\ pc' = "demux"
    /\ UNCHANGED <<contVars, setupVars, restVars, inAudio, outAudio, nAddStream, readVars, encVars,
                   failed, reported>>

\* Variant of Demux: the end of the packet sequence is never seen (the
\* demuxer is polled again instead of leaving the loop).
Demux_NeverExhausted ==
    /\ pc = "demux"
    /\ IF pulled < Len(packets)
         THEN pulled' = pulled + 1 /\ pc' = "dts"
         ELSE pulled' = pulled /\ pc' = "demux"
    /\ UNCHANGED <<contVars, setupVars, restVars, cfgVars, decodeLog, frameQ, nDecoded, frame, rsIn,
                   nResampled, frames, fr, encVars, failed, reported>>

\* line 30: for packet in in_container.demux(in_audio)
Demux ==
    /\ pc = "demux"
    /\ IF pulled < Len(packets)
         THEN pulled' = pulled + 1 /\ pc' = "dts"
         ELSE pulled' = pulled /\ pc' = "flush"
    /\ UNCHANGED <<contVars, setupVars, restVars, cfgVars, decodeLog, frameQ, nDecoded, frame, rsIn,
                   nResampled, frames, fr, encVars, failed, reported>>

\* Variant of CheckDts: the dts test is missing, every packet is decoded.
CheckDts_NoSkip ==
    /\ pc = "dts"
    /\ pc' = "decode"
    /\ UNCHANGED <<contVars, setupVars, restVars, cfgVars, readVars, encVars, failed, reported>>

\* lines 31-32: if packet.dts is None: continue
CheckDts ==
    /\ pc = "dts"
    /\ pc' = IF packets[pulled] THEN "decode" ELSE "demux"
    /\ UNCHANGED <<contVars, setupVars, restVars, cfgVars, readVars, encVars, failed, reported>>

\* line 34: packet.decode() returns the frames of the packet, or raises
Decode ==
    /\ pc = "decode"
    /\ \/ \E n \in 0..Min(MaxFrames, MaxDecoded - nDecoded) :
            /\ frameQ' = Range(nDecoded + 1, nDecoded + n)
            /\ nDecoded' = nDecoded + n
            /\ decodeLog' = Append(decodeLog, pulled)
            /\ pc' = "next_frame"
            /\ UNCHANGED failed
       \/ /\ Raise("decode")
          /\ decodeLog' = Append(decodeLog, pulled)
          /\ UNCHANGED <<frameQ, nDecoded>>
    /\ UNCHANGED <<contVars, setupVars, restVars, cfgVars, pulled, frame, rsIn, nResampled, frames, fr,
                   encVars, reported>>

\* Variant of NextFrame: the resampler is constructed inside the frame loop,
\* once per decoded frame.
NextFrame_NewResampler ==
    /\ pc = "next_frame"
    /\ IF frameQ = <<>>
         THEN pc' = "demux" /\ UNCHANGED <<frame, frameQ, resampler, nResampler>>
         ELSE /\ frame' = Head(frameQ)
              /\ frameQ' = Tail(frameQ)
              /\ resampler' = [format |-> "s16", layout |-> outAudio.layout,
                               rate |-> outAudio.rate]
              /\ nResampler' = nResampler + 1
              /\ pc' = "resample"
    /\ UNCHANGED <<contVars, setupVars, restVars, inAudio, outAudio, nAddStream, pulled, decodeLog,
                   nDecoded, rsIn, nResampled, frames, fr, encVars, failed, reported>>

\* line 34: for frame in <decode result>
NextFrame ==
    /\ pc = "next_frame"
    /\ IF frameQ = <<>>
         THEN pc' = "demux" /\ UNCHANGED <<frame, frameQ>>
         ELSE /\ frame' = Head(frameQ)
              /\ frameQ' = Tail(frameQ)
              /\ pc' = "resample"
    /\ UNCHANGED <<contVars, setupVars, restVars, cfgVars, pulled, decodeLog, nDecoded, rsIn, nResampled,
                   frames, fr, encVars, failed, reported>>

\* lines 35-38: frame = resampler.resample(frame);
\*              frames = frame if isinstance(frame, list) else [frame]
\* The resampler returns a list of frames (possibly empty), or one bare
\* frame, or None when it has nothing to return; a value that is not a
\* list is wrapped in a one-element list, None included.
Resample ==
    /\ pc = "resample"
    /\ rsIn' = Append(rsIn, frame)
    /\ \/ \E k \in 0..Min(MaxOut, ResamplerBuffered + 1) :     \* a list of k frames
            /\ frames' = Range(nResampled + 1, nResampled + k)
            /\ nResampled' = nResampled + k
            /\ pc' = "next_fr"
            /\ UNCHANGED failed
       \/ /\ frames' = <<nResampled + 1>>                      \* a bare frame
          /\ nResampled' = nResampled + 1
          /\ pc' = "next_fr"
          /\ UNCHANGED failed
       \/ /\ frames' = <<EOS>>                                 \* None
          /\ nResampled' = nResampled
          /\ pc' = "next_fr"
          /\ UNCHANGED failed
       \/ /\ Raise("resample")
          /\ UNCHANGED <<frames, nResampled>>
    /\ UNCHANGED <<contVars, setupVars, restVars, cfgVars, pulled, decodeLog, frameQ, nDecoded, frame, fr,
                   encVars, reported>>

\* Variant of NextFr: only the first frame of the resampler's result is
\* encoded (fr = frames[0]), the rest of the list is left behind.
NextFr_FirstOnly ==
    /\ pc = "next_fr"
    /\ IF frames = <<>>
         THEN pc' = "next_frame" /\ UNCHANGED <<fr, frames>>
         ELSE /\ fr' = Head(frames)
              /\ frames' = <<>>
              /\ pc' = "encode"
    /\ UNCHANGED <<contVars, setupVars, restVars, cfgVars, pulled, decodeLog, frameQ, nDecoded, frame, rsIn,
                   nResampled, encVars, failed, reported>>

\* line 40: for fr in frames
NextFr ==
    /\ pc = "next_fr"
    /\ IF frames = <<>>
         THEN pc' = "next_frame" /\ UNCHANGED <<fr, frames>>
         ELSE /\ fr' = Head(frames)
              /\ frames' = Tail(frames)
              /\ pc' = "encode"
    /\ UNCHANGED <<contVars, setupVars, restVars, cfgVars, pulled, decodeLog, frameQ, nDecoded, frame, rsIn,
                   nResampled, encVars, failed, reported>>

\* Number of packets an encode call may return: a real frame is buffered
\* and any part of the buffer may come out; the end-of-stream marker
\* drains the buffer.
EncodeYield(arg) ==
    IF arg = EOS THEN {EncoderBuffered}
                 ELSE 0..Min(MaxOut, EncoderBuffered + 1)

\* line 41: out_audio.encode(fr) returns packets, or raises
Encode ==
    /\ pc = "encode"
    /\ encIn' = Append(encIn, fr)
    /\ \/ \E m \in EncodeYield(fr) :
            /\ pktQ' = Range(nEncoded + 1, nEncoded + m)
            /\ nEncoded' = nEncoded + m
            /\ pc' = "next_out_packet"
            /\ UNCHANGED failed
       \/ /\ Raise("encode")
          /\ UNCHANGED <<pktQ, nEncoded>>
    /\ UNCHANGED <<contVars, setupVars, restVars, cfgVars, readVars, flushFrom, muxed, reported>>

\* line 41: for out_packet in <encode result>: no packet left, back to line 40
EndOutPackets ==
    /\ pc = "next_out_packet"
    /\ pktQ = <<>>
    /\ pc' = "next_fr"
    /\ UNCHANGED <<contVars, setupVars, restVars, cfgVars, readVars, encVars, failed, reported>>

\* Variant of Mux: the packets of one encode result are muxed last first.
Mux_LastFirst ==
    /\ pc = "next_out_packet"
    /\ pktQ # <<>>
    /\ \/ /\ muxed' = Append(muxed, pktQ[Len(pktQ)])
          /\ pktQ' = SubSeq(pktQ, 1, Len(pktQ) - 1)
          /\ pc' = "next_out_packet"
          /\ UNCHANGED failed
       \/ /\ Raise("mux")
          /\ UNCHANGED <<muxed, pktQ>>
    /\ UNCHANGED <<contVars, setupVars, restVars, cfgVars, readVars, encIn, nEncoded, flushFrom, reported>>

\* lines 41-42: the next out_packet of the encode result; out_container.mux(out_packet)
Mux ==
    /\ pc = "next_out_packet"
    /\ pktQ # <<>>
    /\ \/ /\ muxed' = Append(muxed, Head(pktQ))
          /\ pktQ' = Tail(pktQ)
          /\ pc' = "next_out_packet"
          /\ UNCHANGED failed
       \/ /\ Raise("mux")
          /\ UNCHANGED <<muxed, pktQ>>
    /\ UNCHANGED <<contVars, setupVars, restVars, cfgVars, readVars, encIn, nEncoded, flushFrom, reported>>

\* line 45: out_audio.encode(None)
Flush ==
    /\ pc = "flush"
    /\ encIn' = Append(encIn, EOS)
    /\ flushFrom' = nEncoded
    /\ \/ \E m \in EncodeYield(EOS) :
            /\ pktQ' = Range(nEncoded + 1, nEncoded + m)
            /\ nEncoded' = nEncoded + m
            /\ pc' = "flush_next"
            /\ UNCHANGED failed
       \/ /\ Raise("encode")
          /\ UNCHANGED <<pktQ, nEncoded>>
    /\ UNCHANGED <<contVars, setupVars, restVars, cfgVars, readVars, muxed, reported>>

\* lines 45-46: the next out_packet of the flush result; out_container.mux(out_packet)
FlushMux ==
    /\ pc = "flush_next"
    /\ pktQ # <<>>
    /\ \/ /\ muxed' = Append(muxed, Head(pktQ))
          /\ pktQ' = Tail(pktQ)
          /\ pc' = "flush_next"
          /\ UNCHANGED failed
       \/ /\ Raise("mux")
          /\ UNCHANGED <<muxed, pktQ>>
    /\ UNCHANGED <<contVars, setupVars, restVars, cfgVars, readVars, encIn, nEncoded, flushFrom, reported>>

\* line 45: the flush result is exhausted
EndFlush ==
    /\ pc = "flush_next"
    /\ pktQ = <<>>
    /\ pc' = "close_in"
    /\ UNCHANGED <<contVars, setupVars, restVars, cfgVars, readVars, encVars, failed, reported>>

\* line 48: in_container.close()
CloseIn ==
    /\ pc = "close_in"
    /\ inC' = "closed"
    /\ pc' = "close_out"
    /\ UNCHANGED <<outC, setupVars, restVars, cfgVars, readVars, encVars, failed, reported>>

\* line 49: out_container.close()
CloseOut ==
    /\ pc = "close_out"
    /\ outC' = "closed"
    /\ pc' = "print"
    /\ UNCHANGED <<inC, setupVars, restVars, cfgVars, readVars, encVars, failed, reported>>

\* line 51: print(f"Saved MP3 to: {out_path}")
PrintSaved ==
    /\ pc = "print"
    /\ reported' = TRUE
    /\ pc' = "done"
    /\ UNCHANGED <<contVars, setupVars, restVars, cfgVars, readVars, encVars, failed>>

Next ==
    \/ OpenIn \/ OpenOut \/ SelectAudio \/ AddStream \/ SetBitRate \/ SetLayout
    \/ MakeResampler
    \/ Demux \/ CheckDts \/ Decode \/ NextFrame \/ Resample \/ NextFr
    \/ Encode \/ EndOutPackets \/ Mux
    \/ Flush \/ FlushMux \/ EndFlush
    \/ CloseIn \/ CloseOut \/ PrintSaved

Spec == Init /\ [][Next]_vars

----------------------------------------------------------------------------
\* Runs of the script side by side.  Every run executes the script with its
\* own interpreter state (its own containers, resampler and encoder, as
\* modelled above); what the runs have in common is the file system, and
\* the paths of lines 3-4.  A run is followed here through the statements
\* that touch the file system; the packets it muxes are numbered 1..toMux[r].

\* The single run of Spec is not started.
ScriptOff ==
    /\ pc = "off"
    /\ inC = "unopened" /\ outC = "unopened"
    /\ hasAudio = TRUE /\ packets = <<>>
    /\ pulled = 0 /\ decodeLog = <<>> /\ frameQ = <<>> /\ nDecoded = 0 /\ frame = 0
    /\ rsIn = <<>> /\ nResampled = 0 /\ frames = <<>> /\ fr = 0
    /\ encIn = <<>> /\ pktQ = <<>> /\ nEncoded = 0 /\ flushFrom = -1 /\ muxed = <<>>
    /\ failed = "none" /\ reported = FALSE
    /\ inAudio = Unset /\ outAudio = Unset /\ resampler = Unset
    /\ nAddStream = 0 /\ nResampler = 0

HostInit ==
    /\ ScriptOff
    /\ UploadOff
    /\ hpc = [r \in Runs |-> "open_in"]
    /\ toMux \in [Runs -> 0..MaxRunPackets]
    /\ hMuxed = [r \in Runs |-> 0]
    /\ fs = [p \in {OutPath} |-> <<>>]

\* line 4: the destination of a run is out_path, whichever run it is.
Dest(r) == OutPath

\* line 7: in_container = av.open(in_path)
HOpenIn(r) ==
    /\ hpc[r] = "open_in"
    /\ hpc' = [hpc EXCEPT ![r] = "open_out"]
    /\ UNCHANGED <<scriptVars, upVars, toMux, hMuxed, fs>>

\* line 10: av.open(out_path, mode="w", format="mp3") creates or truncates the file
HOpenOut(r) ==
    /\ hpc[r] = "open_out"
    /\ fs' = [fs EXCEPT ![Dest(r)] = <<>>]
    /\ hpc' = [hpc EXCEPT ![r] = "mux"]
    /\ UNCHANGED <<scriptVars, upVars, toMux, hMuxed>>

\* lines 42 and 46: out_container.mux(out_packet) writes the packet to the file
HMux(r) ==
    /\ hpc[r] = "mux"
    /\ hMuxed[r] < toMux[r]
    /\ fs' = [fs EXCEPT ![Dest(r)] = Append(@, <<r, hMuxed[r] + 1>>)]
    /\ hMuxed' = [hMuxed EXCEPT ![r] = @ + 1]
    /\ UNCHANGED <<scriptVars, upVars, hpc, toMux>>

\* lines 30-46 are through: no packet is left to mux
HEndMux(r) ==
    /\ hpc[r] = "mux"
    /\ hMuxed[r] = toMux[r]
    /\ hpc' = [hpc EXCEPT ![r] = "close_in"]
    /\ UNCHANGED <<scriptVars, upVars, toMux, hMuxed, fs>>

\* line 48: in_container.close()
HCloseIn(r) ==
    /\ hpc[r] = "close_in"
    /\ hpc' = [hpc EXCEPT ![r] = "close_out"]
    /\ UNCHANGED <<scriptVars, upVars, toMux, hMuxed, fs>>

\* line 49: out_container.close()
HCloseOut(r) ==
    /\ hpc[r] = "close_out"
    /\ hpc' = [hpc EXCEPT ![r] = "done"]
    /\ UNCHANGED <<scriptVars, upVars, toMux, hMuxed, fs>>

HostNext ==
    \E r \in Runs :
        \/ HOpenIn(r) \/ HOpenOut(r) \/ HMux(r) \/ HEndMux(r)
        \/ HCloseIn(r) \/ HCloseOut(r)

HostSpec == HostInit /\ [][HostNext]_vars

----------------------------------------------------------------------------
\* The upload handler upload_mp4 of src/api.py, one request.  File names are
\* sequences of characters; the upstream service and the uploaded file are
\* the environment: a call returns a status and a body, or raises, and an
\* exception the handler does not catch becomes the framework's 500.

MaxChunks == 2

Names ==
    { <<>>,
      <<"a", ".", "m", "p", "4">>,
      <<"A", ".", "M", "P", "4">>,
      <<".", "m", "p", "4">>,
      <<"a", ".", "m", "p", "3">>,
      <<"m", "p", "4">>,
      <<"a", ".", "m", "p", "4", "x">> }

\* Status codes an upstream call may answer with, around the limit of 400.
Statuses == {200, 399, 400, 500}

\* Value of a key of the init response: "none" when the key is absent or
\* null, otherwise a string, possibly empty.
UrlValues == {"none", "", "u1", "u2"}

\* str.lower() on one character
LowerChar(c) ==
    CASE c = "A" -> "a"
      [] c = "M" -> "m"
      [] c = "P" -> "p"
      [] OTHER -> c

\* str.lower()
Lower(str) == [i \in DOMAIN str |-> LowerChar(str[i])]

\* str.endswith(suffix)
EndsWith(str, suffix) ==
    /\ Len(str) >= Len(suffix)
    /\ SubSeq(str, Len(str) - Len(suffix) + 1, Len(str)) = suffix

\* Variant of IsMp4Name: the dot is not part of the suffix tested.
IsMp4Name_NoDot(name) == EndsWith(Lower(name), <<"m", "p", "4">>)

\* line 48: file.filename.lower().endswith(".mp4")
IsMp4Name(name) == EndsWith(Lower(name), <<".", "m", "p", "4">>)

\* Python truthiness of a value of the init response
Truthy(v) == v \notin {"none", ""}

\* a or b
Or(a, b) == IF Truthy(a) THEN a ELSE b

\* Variant of IsErrorStatus: the limit itself is not an error.
IsErrorStatus_Above(status) == status > 400

\* lines 101 and 132: status_code >= 400
IsErrorStatus(status) == status >= 400

UploadInit ==
    /\ ScriptOff
    /\ HostOff
    /\ upc = "check_name"
    /\ fname \in Names
    /\ initUploadUrl \in {"", "https://init"}
    /\ validate \in BOOLEAN
    /\ chunksLeft \in 0..MaxChunks
    /\ tmpExists = FALSE /\ bytesRead = 0 /\ fileClosed = FALSE /\ pendingExc = FALSE
    /\ nInit = 0 /\ initStatus = 0 /\ initData = Unset /\ uploadUrl = "none"
    /\ nPut = 0 /\ putUrl = "none" /\ putStatus = 0
    /\ response = 0 /\ detail = ""

\* raise HTTPException(status_code=code, detail=text), or the final return
Respond(code, text) ==
    /\ response' = code
    /\ detail' = text
    /\ upc' = "done"

\* lines 45-46: if not file.filename: 400
UCheckName ==
    /\ upc = "check_name"
    /\ IF fname = <<>>
         THEN Respond(400, "Missing filename")
         ELSE upc' = "check_ext" /\ UNCHANGED <<response, detail>>
    /\ UNCHANGED <<scriptVars, hostVars, upReqVars, upFileVars, upHttpVars>>

\* lines 48-49: if not file.filename.lower().endswith(".mp4"): 400
UCheckExt ==
    /\ upc = "check_ext"
    /\ IF ~IsMp4Name(fname)
         THEN Respond(400, "Only .mp4 files are supported")
         ELSE upc' = "check_cfg" /\ UNCHANGED <<response, detail>>
    /\ UNCHANGED <<scriptVars, hostVars, upReqVars, upFileVars, upHttpVars>>

\* lines 51-55: if not INIT_UPLOAD_URL: 500
UCheckCfg ==
    /\ upc = "check_cfg"
    /\ IF initUploadUrl = ""
         THEN Respond(500, "Server not configured")
         ELSE upc' = "open_tmp" /\ UNCHANGED <<response, detail>>
    /\ UNCHANGED <<scriptVars, hostVars, upReqVars, upFileVars, upHttpVars>>

\* lines 58-69: file_id, tmp_path; open(tmp_path, "wb") creates the temp file,
\* or raises and the finally block of line 76 runs
UOpenTmp ==
    /\ upc = "open_tmp"
    /\ \/ /\ tmpExists' = TRUE
          /\ upc' = "read"
          /\ UNCHANGED pendingExc
       \/ /\ pendingExc' = TRUE
          /\ upc' = "finally"
          /\ UNCHANGED tmpExists
    /\ UNCHANGED <<scriptVars, hostVars, upReqVars, chunksLeft, bytesRead, fileClosed,
                   upHttpVars, response, detail>>

\* lines 70-75: one turn of the read loop: a chunk is read and written, or the
\* empty chunk ends the loop, or the read raises
URead ==
    /\ upc = "read"
    /\ \/ /\ chunksLeft > 0
          /\ chunksLeft' = chunksLeft - 1
          /\ bytesRead' = bytesRead + 1
          /\ UNCHANGED <<upc, pendingExc>>
       \/ /\ chunksLeft = 0
          /\ upc' = "finally"
          /\ UNCHANGED <<chunksLeft, bytesRead, pendingExc>>
       \/ /\ pendingExc' = TRUE
          /\ upc' = "finally"
          /\ UNCHANGED <<chunksLeft, bytesRead>>
    /\ UNCHANGED <<scriptVars, hostVars, upReqVars, tmpExists, fileClosed, upHttpVars,
                   response, detail>>

\* lines 76-80: finally: await file.close(); then the pending exception goes
\* on, or the handler continues
UFinally ==
    /\ upc = "finally"
    /\ fileClosed' = TRUE
    /\ IF pendingExc
         THEN Respond(500, "Internal Server Error")
         ELSE upc' = "validate" /\ UNCHANGED <<response, detail>>
    /\ UNCHANGED <<scriptVars, hostVars, upReqVars, chunksLeft, tmpExists, bytesRead,
                   pendingExc, upHttpVars>>

\* lines 83-91: if VALIDATE_WITH_PYAV: av.open(tmp_path), 400 when it raises
UValidate ==
    /\ upc = "validate"
    /\ \/ upc' = "init" /\ UNCHANGED <<response, detail>>
       \/ validate /\ Respond(400, "File is not a valid MP4 container")
    /\ UNCHANGED <<scriptVars, hostVars, upReqVars, upFileVars, upHttpVars>>

\* lines 96-99: init_resp = await client.post(INIT_UPLOAD_URL, json=...)
UInit ==
    /\ upc = "init"
    /\ nInit' = nInit + 1
    /\ \/ /\ initStatus' \in Statuses
          /\ upc' = "check_init"
          /\ UNCHANGED <<response, detail>>
       \/ /\ Respond(500, "Internal Server Error")
          /\ UNCHANGED initStatus
    /\ UNCHANGED <<scriptVars, hostVars, upReqVars, upFileVars, initData, uploadUrl, nPut,
                   putUrl, putStatus>>

\* lines 101-103: if init_resp.status_code >= 400: 502
UCheckInit ==
    /\ upc = "check_init"
    /\ IF IsErrorStatus(initStatus)
         THEN Respond(502, "Upstream init upload failed")
         ELSE upc' = "parse_init" /\ UNCHANGED <<response, detail>>
    /\ UNCHANGED <<scriptVars, hostVars, upReqVars, upFileVars, upHttpVars>>

\* Variant of UParseInit: the test of line 113 is missing.
UParseInit_NoTest ==
    /\ upc = "parse_init"
    /\ \/ \E a, b, c \in UrlValues :
            /\ initData' = [upload_url |-> a, presigned_url |-> b, url |-> c]
            /\ uploadUrl' = Or(Or(a, b), c)
            /\ upc' = "put"
            /\ UNCHANGED <<response, detail>>
       \/ /\ Respond(500, "Internal Server Error")
          /\ UNCHANGED <<initData, uploadUrl>>
    /\ UNCHANGED <<scriptVars, hostVars, upReqVars, upFileVars, nInit, initStatus, nPut,
                   putUrl, putStatus>>

\* lines 105-121: init_data = init_resp.json() (raises when the body is not
\* JSON); upload_url = upload_url or presigned_url or url; 502 when it is empty
UParseInit ==
    /\ upc = "parse_init"
    /\ \/ \E a, b, c \in UrlValues :
            /\ initData' = [upload_url |-> a, presigned_url |-> b, url |-> c]
            /\ uploadUrl' = Or(Or(a, b), c)
            /\ IF ~Truthy(Or(Or(a, b), c))
                 THEN Respond(502, "Upstream did not return an upload URL")
                 ELSE upc' = "put" /\ UNCHANGED <<response, detail>>
       \/ /\ Respond(500, "Internal Server Error")
          /\ UNCHANGED <<initData, uploadUrl>>
    /\ UNCHANGED <<scriptVars, hostVars, upReqVars, upFileVars, nInit, initStatus, nPut,
                   putUrl, putStatus>>

\* lines 125-130: put_resp = await client.put(upload_url, content=f, headers=headers)
UPut ==
    /\ upc = "put"
    /\ nPut' = nPut + 1
    /\ putUrl' = uploadUrl
    /\ \/ /\ putStatus' \in Statuses
          /\ upc' = "check_put"
          /\ UNCHANGED <<response, detail>>
       \/ /\ Respond(500, "Internal Server Error")
          /\ UNCHANGED putStatus
    /\ UNCHANGED <<scriptVars, hostVars, upReqVars, upFileVars, nInit, initStatus, initData,
                   uploadUrl>>

\* lines 132-147: if put_resp.status_code >= 400: 502; otherwise the result
\* with status "received_and_uploaded" is returned
UCheckPut ==
    /\ upc = "check_put"
    /\ IF IsErrorStatus(putStatus)
         THEN Respond(502, "Presigned PUT failed")
         ELSE Respond(200, "received_and_uploaded")
    /\ UNCHANGED <<scriptVars, hostVars, upReqVars, upFileVars, upHttpVars>>

UploadNext ==
    \/ UCheckName \/ UCheckExt \/ UCheckCfg \/ UOpenTmp \/ URead \/ UFinally
    \/ UValidate \/ UInit \/ UCheckInit \/ UParseInit \/ UPut \/ UCheckPut

UploadSpec == UploadInit /\ [][UploadNext]_vars

\* The script is sequential and every call into PyAV returns or raises, so
\* the script always takes its next step.
FairSpec == Spec /\ WF_vars(Next)

----------------------------------------------------------------------------
TypeOK ==
    /\ pc \in {"open_in", "open_out", "select", "add_stream", "set_bit_rate",
               "set_layout", "resampler", "demux",
               "dts", "decode", "next_frame", "resample", "next_fr", "encode",
               "next_out_packet", "flush", "flush_next", "close_in", "close_out",
               "print", "done", "aborted"}
    /\ inC \in {"unopened", "open", "closed"}
    /\ outC \in {"unopened", "open", "closed"}
    /\ pulled \in 0..Len(packets)
    /\ ResamplerBuffered >= 0
    /\ EncoderBuffered >= 0
    /\ failed \in {"none", "open", "select", "decode", "resample", "encode", "mux"}

----------------------------------------------------------------------------
\* Derived notions used by the properties

Stages == {"decode", "resample", "encode", "mux"}

\* The run has ended: the script ran to its last line, or an exception left it.
Ended == pc \in {"done", "aborted"}

\* The script is past the flush loop of lines 45-46.
PastFlush == pc \in {"close_in", "close_out", "print", "done"}

RealEncIn == SelectSeq(encIn, IsReal)

FlushCalls == Len(encIn) - Len(RealEncIn)

\* Indices of the packets among the first n that carry a dts, in input order.
DtsIdx(n) == SelectSeq(Range(1, n), LAMBDA i : packets[i])

\* The orchestrator's phase, read off the position in the script.
Phase ==
    CASE pc \in {"open_in", "open_out", "select", "add_stream", "set_bit_rate",
                 "set_layout", "resampler"} -> "Init"
      [] pc \in {"demux", "dts", "decode", "next_frame", "resample", "next_fr",
                 "encode", "next_out_packet"} -> "Reading"
      [] pc \in {"flush", "flush_next", "close_in", "close_out"} -> "Flushing"
      [] pc \in {"print", "done"} -> "Closed"
      [] pc = "aborted" -> "Aborted"

----------------------------------------------------------------------------
\* C1: in a run that exhausts its input without a stage failure, the encoder
\* receives the end-of-stream marker exactly once, as the last encode call
\* (after every real frame), and once the output container is closed every
\* packet the encoder returned, those of the flush included, has been muxed.
C1_FlushExactlyOnceAndLast ==
    PastFlush =>
        /\ FlushCalls = 1
        /\ encIn[Len(encIn)] = EOS
        /\ (outC = "closed" => Len(muxed) = nEncoded)

\* C2: once encode has been called with the end-of-stream marker, no later
\* encode call carries a real frame.
C2_NoRealFrameAfterFlush ==
    \A i, j \in DOMAIN encIn : (i < j /\ encIn[i] = EOS) => encIn[j] = EOS

\* C3: when the run has completed, the audio muxed equals the audio decoded,
\* within one frame, and neither the resampler nor the encoder still holds
\* buffered audio.
C3_AllAudioPreserved ==
    pc = "done" =>
        /\ nDecoded - Len(muxed) \in {-1, 0, 1}
        /\ ResamplerBuffered = 0
        /\ EncoderBuffered = 0

\* C4: a packet without a dts is never decoded, the step that skips it changes
\* nothing but the position (it raises nothing and hands no frame to any stage),
\* and the packets decoded are exactly the packets with a dts, in input order.
C4_SkipStep ==
    (pc = "dts" /\ ~packets[pulled]) =>
        /\ pc' = "demux"
        /\ UNCHANGED <<failed, decodeLog, nDecoded, frameQ, rsIn, encIn, muxed>>

C4_DecodedAreDts ==
    /\ \A i \in DOMAIN decodeLog : packets[decodeLog[i]]
    /\ decodeLog = DtsIdx(IF pc \in {"dts", "decode"} THEN pulled - 1 ELSE pulled)

C4_SkipMissingDts == [](C4_DecodedAreDts) /\ [][C4_SkipStep]_vars

C4_Witness ==
    /\ pc = "done"
    /\ \E i \in DOMAIN packets : \E j \in DOMAIN decodeLog :
          ~packets[i] /\ decodeLog[j] > i

\* C5: every stage receives what the previous stage returned, in the order it
\* was returned, nothing twice and nothing left out: the resampler gets the
\* decoded frames 1, 2, 3, ..., the encoder gets the resampled frames 1, 2, 3,
\* ..., the muxer gets the packets 1, 2, 3, ..., and in a completed run all of
\* them have been handed on, the packets of the final flush being the last
\* ones muxed.
C5_FIFO ==
    /\ rsIn = Range(1, Len(rsIn)) /\ Len(rsIn) <= nDecoded
    /\ RealEncIn = Range(1, Len(RealEncIn)) /\ Len(RealEncIn) <= nResampled
    /\ muxed = Range(1, Len(muxed)) /\ Len(muxed) <= nEncoded
    /\ PastFlush =>
          /\ Len(rsIn) = nDecoded
          /\ Len(RealEncIn) = nResampled
          /\ Len(muxed) = nEncoded
          /\ SubSeq(muxed, flushFrom + 1, Len(muxed)) = Range(flushFrom + 1, nEncoded)

C5_Witness ==
    /\ pc = "done"
    /\ Len(rsIn) >= 2
    /\ Len(RealEncIn) >= 2
    /\ flushFrom >= 1
    /\ nEncoded > flushFrom
    /\ Len(muxed) >= 3

\* C6: when the next packet is about to be pulled or the next decoded frame is
\* about to be resampled, every frame the resampler has returned has been
\* passed to the encoder and every packet the encoder has returned has been
\* muxed; nothing of an earlier input is still pending.
C6_NoOverlap ==
    pc \in {"demux", "dts", "decode", "next_frame", "resample"} =>
        /\ frames = <<>>
        /\ pktQ = <<>>
        /\ Len(RealEncIn) = nResampled
        /\ Len(muxed) = nEncoded

C6_Witness ==
    /\ pc = "resample"
    /\ nResampled >= 2
    /\ nEncoded >= 2
    /\ Len(muxed) >= 2

\* C7: when the run ends, after a completed flush or after a failed stream
\* selection, decode, resample, encode or mux call, no container that was
\* opened is still open.
C7_AllOpenedContainersClosed ==
    (Ended /\ failed \in Stages \cup {"select", "none"}) =>
        (inC # "open" /\ outC # "open")

\* C8: after a stage call failed while the run was reading input, the run has
\* stopped without the flush call of the end of the stream and both containers
\* have been closed.
C8_AbortGoesToCloses ==
    (failed \in Stages /\ flushFrom = -1) =>
        /\ pc = "aborted"
        /\ inC = "closed"
        /\ outC = "closed"

\* C9: success is reported only by a run in which no call failed, all input
\* was read, the flush was issued and its packets muxed, and both containers
\* were closed; a run in which a call failed never reports success.
C9_SuccessOnlyWhenAllCompleted ==
    /\ reported =>
          /\ failed = "none"
          /\ pulled = Len(packets)
          /\ flushFrom >= 0
          /\ Len(muxed) = nEncoded
          /\ inC = "closed"
          /\ outC = "closed"
    /\ failed # "none" => (~reported /\ pc = "aborted")

C9_Witness ==
    /\ reported
    /\ nDecoded >= 2
    /\ Len(muxed) >= 2

\* C10: the phase moves only along Init -> Reading -> Flushing -> Closed or
\* from Reading to Aborted, Flushing is entered only when the input packets
\* are exhausted, and a run that was reading input ends in Closed or Aborted
\* with the input container closed.  (A failure before Reading or during
\* Flushing, of which the statement does not speak, is let through here.)
C10_PhaseEdge ==
    \/ Phase' = Phase
    \/ <<Phase, Phase'>> \in {<<"Init", "Reading">>, <<"Reading", "Flushing">>,
                             <<"Flushing", "Closed">>, <<"Reading", "Aborted">>,
                             <<"Init", "Aborted">>, <<"Flushing", "Aborted">>}

C10_PhaseState ==
    /\ Phase = "Flushing" => pulled = Len(packets)
    /\ Ended => Phase \in {"Closed", "Aborted"}
    /\ (Phase = "Closed" \/ (Phase = "Aborted" /\ failed \in Stages /\ flushFrom = -1))
          => inC = "closed"

C10_PhaseMachine == [](C10_PhaseState) /\ [][C10_PhaseEdge]_vars

----------------------------------------------------------------------------
\* C11: the write container is opened only after the read container is open
\* and the audio stream has been selected in it; a run on a source without an
\* audio stream ends at the stream selection with the destination never
\* opened and no packet demuxed, encoded or muxed.
C11_OpenOutAfterSelect ==
    /\ outC # "unopened" => (inC # "unopened" /\ inAudio # Unset)
    /\ (~hasAudio /\ Ended /\ failed # "open") =>
          /\ failed = "select"
          /\ outC = "unopened"
          /\ pulled = 0 /\ encIn = <<>> /\ muxed = <<>>

C12_CountsState ==
    /\ nAddStream <= 1
    /\ nResampler <= 1
    /\ (Ended /\ failed \in {"open", "select"}) => (nAddStream = 0 /\ nResampler = 0)
    /\ (Ended /\ failed \notin {"open", "select"}) => (nAddStream = 1 /\ nResampler = 1)
    /\ (pulled > 0 \/ encIn # <<>> \/ muxed # <<>> \/ Phase \in {"Reading", "Flushing", "Closed"})
          => (nAddStream = 1 /\ nResampler = 1)

C12_ConfigFrozen ==
    (Phase \in {"Reading", "Flushing", "Closed"}) =>
        (outAudio' = outAudio /\ resampler' = resampler)

C13_LayoutFallback ==
    /\ (pc \notin {"open_in", "open_out", "select", "add_stream", "set_bit_rate",
                   "set_layout"} /\ outAudio # Unset) =>
          /\ inAudio.layout = "none" => outAudio.layout = "stereo"
          /\ inAudio.layout = "mono" => outAudio.layout = "mono"
          /\ inAudio.layout # "none" => outAudio.layout = inAudio.layout
    /\ resampler # Unset =>
          /\ resampler.layout = outAudio.layout
          /\ resampler.rate = outAudio.rate

C13_Witness ==
    /\ resampler # Unset
    /\ inAudio.layout = "none"
    /\ inAudio.rate = 0
    /\ outAudio.layout = "stereo"
    /\ resampler.layout = "stereo"
    /\ resampler.rate = DefaultRate

\* C16: every run ends, in the closed state or aborted, and on the way the
\* demuxer position only moves forward one packet at a time and never past
\* the end of the input, so no packet is consumed twice.
C16_PullsForward == pulled' \in {pulled, pulled + 1}

C16_Terminates ==
    /\ <>Ended
    /\ [](pulled <= Len(packets))
    /\ [][C16_PullsForward]_vars

C16_Witness ==
    /\ pc = "done"
    /\ Len(packets) >= 2
    /\ pulled = Len(packets)
    /\ Len(decodeLog) >= 2
    /\ nDecoded >= 2

\* C17: inside the read loop the encoder is never called with the
\* end-of-stream marker: a resample call that yields no frame leads to no
\* encode call, so before the flush of line 45 every encode call carries a
\* real frame.
C17_NoFlushFromEmptyResample ==
    flushFrom = -1 => FlushCalls = 0

----------------------------------------------------------------------------
\* C14: under every interleaving of two runs, what is found in the
\* destination of a run was written by that run alone, and when the runs have
\* ended the destination of each holds the packets that run muxes on its own,
\* in its order.
OwnPackets(r) == [i \in 1..toMux[r] |-> <<r, i>>]

C14_RunsShareNothing ==
    \A r \in Runs :
        /\ hpc[r] \in {"mux", "close_in", "close_out", "done"} =>
              \A i \in DOMAIN fs[Dest(r)] : fs[Dest(r)][i][1] = r
        /\ (\A q \in Runs : hpc[q] = "done") => fs[Dest(r)] = OwnPackets(r)

----------------------------------------------------------------------------
\* C18: a request issues at most one init call and at most one PUT; the PUT
\* is issued only after the init call answered with a status below 400 and a
\* non-empty upload URL, and it goes to that URL, one of the URLs in the body
\* of this request's init response.
C18_PutOnlyAfterInit ==
    /\ nInit <= 1
    /\ nPut <= 1
    /\ nPut = 1 =>
          /\ nInit = 1
          /\ initStatus \in 1..399
          /\ putUrl \notin {"none", ""}
          /\ putUrl = uploadUrl
          /\ putUrl \in {initData.upload_url, initData.presigned_url, initData.url}

C18_Witness ==
    /\ nPut = 1
    /\ initStatus = 399
    /\ initData.upload_url = ""
    /\ initData.presigned_url = "none"
    /\ putUrl = "u2"

\* C19: the result "received_and_uploaded" is returned only when the init
\* call and the PUT both answered with a status below 400; a request whose
\* init call answered with 400 or more, whose init response holds no upload
\* URL, or whose PUT answered with 400 or more ends with 502 and without the
\* success result.
C19_SuccessOnlyWhenBothBelow400 ==
    /\ (response = 200 \/ detail = "received_and_uploaded") =>
          /\ response = 200 /\ detail = "received_and_uploaded"
          /\ nInit = 1 /\ initStatus \in 1..399
          /\ nPut = 1 /\ putStatus \in 1..399
    /\ (upc = "done" /\ initStatus >= 400) => response = 502
    /\ (upc = "done" /\ initData # Unset /\ uploadUrl \in {"none", ""}) => response = 502
    /\ (upc = "done" /\ putStatus >= 400) => response = 502

C19_Witness ==
    /\ upc = "done"
    /\ response = 200
    /\ initStatus = 399
    /\ putStatus = 399
    /\ bytesRead = 2

\* C20: a request without a file name, with a file name that does not end in
\* .mp4 (in any case of the letters), or arriving while INIT_UPLOAD_URL is
\* not set, is answered 400, 400 and 500, and at no moment of such a request
\* has a temp file been created, a chunk been read, the upload been closed or
\* an upstream call been made.
MissingNames == { <<>> }

NotMp4Names ==
    { <<"a", ".", "m", "p", "3">>, <<"m", "p", "4">>, <<"a", ".", "m", "p", "4", "x">> }

C20_RejectedBeforeSideEffects ==
    (fname \in MissingNames \cup NotMp4Names \/ initUploadUrl = "") =>
        /\ ~tmpExists /\ bytesRead = 0 /\ ~fileClosed
        /\ nInit = 0 /\ nPut = 0
        /\ upc \in {"check_name", "check_ext", "check_cfg", "done"}
        /\ upc = "done" =>
              /\ fname \in MissingNames => (response = 400 /\ detail = "Missing filename")
              /\ fname \in NotMp4Names =>
                    (response = 400 /\ detail = "Only .mp4 files are supported")
              /\ fname \notin MissingNames \cup NotMp4Names =>
                    (response = 500 /\ detail = "Server not configured")

C20_Witness ==
    /\ upc = "done"
    /\ fname = <<"A", ".", "M", "P", "4">>
    /\ initUploadUrl = ""
    /\ response = 500
    /\ chunksLeft = 2

====
